---- MODULE Spec2Model ----
(***************************************************************************)
(* Model of log_reader/read_log.py: parse_time, parse_resources, read_log,  *)
(* main.                                                                   *)
(* Text is modelled character by character: a string is a sequence of      *)
(* one-character strings, a file is a sequence of lines, each line ending  *)
(* with its line terminator.  A datetime is a record of its six fields.    *)
(***************************************************************************)
EXTENDS Integers, Sequences, FiniteSets, TLC

VARIABLES
    now,        \* the ambient clock read by datetime.now(): [year, month]
    ticks,      \* how many times the clock has advanced (bounded)
    ptLine,     \* parse_time: the argument `line`
    ptOut,      \* parse_time: the outcome of the call
    prChunk,    \* parse_resources: the argument `chunk`
    prOut,      \* parse_resources: the outcome of the call
    fs,         \* the file system entry behind `path`
    pc,         \* read_log: position of the invocation
    pos,        \* read_log: number of lines the for loop has consumed
    chunk,      \* read_log: the local `chunk`
    jobReport,  \* read_log: the local `jobReport`
    outcome,    \* read_log: how the invocation ended
    run,        \* which invocation of read_log on the same file this is
    first,      \* the outcome of the first invocation
    seen,       \* clock values read by parse_time over both invocations
    last,       \* the most recent dispatch: chunk, report before, clock read
    stdout,     \* the lines printed so far
    argv,       \* main: the command line after the program name
    matches,    \* main: the files that glob.glob(pattern) returned, in order
    idx,        \* main: the index in `matches` of the loop variable f
    mpc,        \* main: position of the invocation
    reads       \* main: the outcomes of the read_log calls made so far

vars == <<now, ticks, ptLine, ptOut, prChunk, prOut, fs, pc, pos, chunk,
          jobReport, outcome, run, first, seen, last, stdout, argv, matches,
          idx, mpc, reads>>

----------------------------------------------------------------------------
(* Characters and strings *)

DigitChars == <<"0", "1", "2", "3", "4", "5", "6", "7", "8", "9">>

SP == " "

NL == "\n"

Whitespace == {SP, NL}

IsDigitChar(c) == \E i \in 1..10 : DigitChars[i] = c

DigitVal(c) == (CHOOSE i \in 1..10 : DigitChars[i] = c) - 1

\* str.isdigit(): non-empty and every character a digit
isdigit(s) == Len(s) > 0 /\ \A i \in 1..Len(s) : IsDigitChar(s[i])

RECURSIVE int(_)
\* int(s) for a string of decimal digits
int(s) ==
    IF Len(s) = 0 THEN 0
    ELSE 10 * int(SubSeq(s, 1, Len(s) - 1)) + DigitVal(s[Len(s)])

\* str.startswith(prefix)
startswith(s, prefix) ==
    /\ Len(s) >= Len(prefix)
    /\ SubSeq(s, 1, Len(prefix)) = prefix

\* the `in` operator on strings: sub occurs somewhere in s
Contains(s, sub) ==
    \E i \in 1..(Len(s) - Len(sub) + 1) : SubSeq(s, i, i + Len(sub) - 1) = sub

\* the positions of s that hold a separator, with the two ends of s
Cuts(s, seps) == {0, Len(s) + 1} \cup {i \in 1..Len(s) : s[i] \in seps}

\* the k-th smallest element of the set of positions P
Nth(P, k) == CHOOSE p \in P : Cardinality({q \in P : q < p}) = k - 1

\* the fields of s between every two neighbouring cuts: k separators give
\* k+1 fields, empty fields included
FieldsBetween(s, P) ==
    [k \in 1..(Cardinality(P) - 1) |-> SubSeq(s, Nth(P, k) + 1, Nth(P, k + 1) - 1)]

\* str.split(sep) with a one-character separator
split(s, sep) == FieldsBetween(s, Cuts(s, {sep}))

\* str.split() without argument: fields between runs of whitespace, no
\* empty fields
splitws(s) == SelectSeq(FieldsBetween(s, Cuts(s, Whitespace)), LAMBDA t : Len(t) > 0)

RECURSIVE Concat(_)
Concat(ss) == IF Len(ss) = 0 THEN <<>> ELSE Head(ss) \o Concat(Tail(ss))

----------------------------------------------------------------------------
(* The calendar of datetime *)

IsLeap(y) == y % 4 = 0 /\ (y % 100 # 0 \/ y % 400 = 0)

DaysInMonth(y, m) ==
    IF m = 2 THEN (IF IsLeap(y) THEN 29 ELSE 28)
    ELSE IF m \in {4, 6, 9, 11} THEN 30 ELSE 31

\* the range checks of the datetime constructor (ValueError otherwise)
ValidDate(y, m, d) ==
    /\ y \in 1..9999
    /\ m \in 1..12
    /\ d >= 1
    /\ d <= DaysInMonth(y, m)

DaysBeforeYear(y) ==
    (y - 1) * 365 + ((y - 1) \div 4) - ((y - 1) \div 100) + ((y - 1) \div 400)

RECURSIVE DaysBeforeMonth(_, _)
DaysBeforeMonth(y, m) ==
    IF m = 1 THEN 0 ELSE DaysBeforeMonth(y, m - 1) + DaysInMonth(y, m - 1)

\* date.toordinal()
ToOrdinal(dt) == DaysBeforeYear(dt.year) + DaysBeforeMonth(dt.year, dt.month) + dt.day

SecondOfDay(dt) == dt.hour * 3600 + dt.minute * 60 + dt.second

\* Minus with its operands exchanged
MinusSwapped(a, b) ==
    LET total == (ToOrdinal(b) - ToOrdinal(a)) * 86400
                     + (SecondOfDay(b) - SecondOfDay(a))
    IN  [days |-> total \div 86400, seconds |-> total % 86400]

\* datetime - datetime: a timedelta normalised to 0 <= seconds < 86400
Minus(a, b) ==
    LET total == (ToOrdinal(a) - ToOrdinal(b)) * 86400
                     + (SecondOfDay(a) - SecondOfDay(b))
    IN  [days |-> total \div 86400, seconds |-> total % 86400]

----------------------------------------------------------------------------
(* parse_time *)

\* one numeric field of the strptime pattern: 1..maxLen digits
Field(s, minLen, maxLen) == isdigit(s) /\ Len(s) >= minLen /\ Len(s) <= maxLen

\* datetime.strptime(timeString, '%Y-%m-%d %H:%M:%S'); timeString is
\* dateTok + " " + timeTok and neither token holds a space
\* the fields d of the date token and t of the time token, converted and
\* range-checked
StrptimeFields(d, t) ==
        IF /\ Len(d) = 3
           /\ Len(t) = 3
           /\ Field(d[1], 4, 4)
           /\ Field(d[2], 1, 2)
           /\ Field(d[3], 1, 2)
           /\ Field(t[1], 1, 2)
           /\ Field(t[2], 1, 2)
           /\ Field(t[3], 1, 2)
           /\ ValidDate(int(d[1]), int(d[2]), int(d[3]))
           /\ int(t[1]) <= 23
           /\ int(t[2]) <= 59
           /\ int(t[3]) <= 59
        THEN [ok |-> TRUE,
              dt |-> [year |-> int(d[1]), month |-> int(d[2]), day |-> int(d[3]),
                      hour |-> int(t[1]), minute |-> int(t[2]), second |-> int(t[3])]]
        ELSE [ok |-> FALSE, exc |-> "ValueError"]

strptime(dateTok, timeTok) == StrptimeFields(split(dateTok, "-"), split(timeTok, ":"))

\* datetime.replace(year=y): ValueError when the day does not exist in y
replace_year(dt, y) ==
    IF ValidDate(y, dt.month, dt.day)
    THEN [ok |-> TRUE, dt |-> [dt EXCEPT !.year = y]]
    ELSE [ok |-> FALSE, exc |-> "ValueError"]

\* InferYear without the December/January rule
InferYearNoRollover(date_object, clock) ==
    IF ~date_object.ok THEN date_object
    ELSE replace_year(date_object.dt, clock.year)

\* the year inference on the strptime result
InferYear(date_object, clock) ==
    IF ~date_object.ok THEN date_object
    ELSE IF date_object.dt.month = 12 /\ clock.month = 1
         THEN replace_year(date_object.dt, clock.year - 1)
         ELSE replace_year(date_object.dt, clock.year)

\* line[2] + " " + line[3] of the split line: IndexError on a short line
TimeString(toks, clock) ==
    IF Len(toks) < 4 THEN [ok |-> FALSE, exc |-> "IndexError"]
    ELSE InferYear(strptime(toks[3], toks[4]), clock)

parse_time(line, clock) == TimeString(split(line, SP), clock)

----------------------------------------------------------------------------
(* parse_resources *)

KeyDisk == <<"D", "i", "s", "k">>

KeyMemory == <<"M", "e", "m", "o", "r", "y">>

\* [int(s) for s in line.split() if s.isdigit()]
numbers(line) ==
    LET digs == SelectSeq(splitws(line), isdigit)
    IN  [i \in 1..Len(digs) |-> int(digs[i])]

\* Put that keeps the value a key already has (first write wins)
PutKeep(d, key, val) ==
    [k \in (DOMAIN d) \cup {key} |-> IF k \in DOMAIN d THEN d[k] ELSE val]

\* d[key] = val on a dict
Put(d, key, val) ==
    [k \in (DOMAIN d) \cup {key} |-> IF k = key THEN val ELSE d[k]]

EmptyDict == [k \in {} |-> 0]

\* numbers[-1] in place of numbers[0]
LastOf(nums) == nums[Len(nums)]

\* numbers[0]: IndexError on an empty list
FirstOf(nums) == nums[1]

\* if word in line: usage[key] = numbers[0]
Take(acc, line, word, key, nums) ==
    IF ~acc.ok \/ ~Contains(line, word) THEN acc
    ELSE IF Len(nums) = 0 THEN [ok |-> FALSE, exc |-> "IndexError"]
    ELSE [ok |-> TRUE, usage |-> Put(acc.usage, key, FirstOf(nums))]

\* one iteration of the for loop over the lines of the chunk
ResourceLine(acc, line) ==
    Take(Take(acc, line, KeyDisk, "diskUsage", numbers(line)),
         line, KeyMemory, "memUsage", numbers(line))

RECURSIVE ResourceLoop(_, _, _)
ResourceLoop(acc, lines, i) ==
    IF i > Len(lines) THEN acc
    ELSE ResourceLoop(ResourceLine(acc, lines[i]), lines, i + 1)

parse_resources(text) ==
    ResourceLoop([ok |-> TRUE, usage |-> EmptyDict], split(text, NL), 1)

----------------------------------------------------------------------------
(* read_log *)

Path == "job1/process.log"

Separator == <<".", ".", ".">>

C000 == <<"0", "0", "0">>

C001 == <<"0", "0", "1">>

C004 == <<"0", "0", "4">>

C005 == <<"0", "0", "5">>

C006 == <<"0", "0", "6">>

C009 == <<"0", "0", "9">>

\* chunk.split('\n')[0]
FirstLine(c) == split(c, NL)[1]

Raise(exc, rep) == [ok |-> FALSE, exc |-> exc, report |-> rep]

\* jobReport[key] = parse_time(chunk.split('\n')[0])
\* Store that swallows a failed parse_time and skips the chunk
StoreSkip(rep, key, t) ==
    IF t.ok THEN [ok |-> TRUE, report |-> Put(rep, key, t.dt)]
    ELSE [ok |-> TRUE, report |-> rep]

\* jobReport[key] = <result of parse_time>; its exception leaves read_log
Store(rep, key, t) ==
    IF t.ok THEN [ok |-> TRUE, report |-> Put(rep, key, t.dt)]
    ELSE Raise(t.exc, rep)

SetTime(rep, key, c, clock) == Store(rep, key, parse_time(FirstLine(c), clock))

\* runTime.seconds alone, the days dropped
SecondsOnly(delta) == delta.seconds

\* runTime.days * 86400 + runTime.seconds
WholeSeconds(delta) == delta.days * 86400 + delta.seconds

\* the body shared by the 004 and the 005 branch
\* StoreUsage that updates the stored usage mapping instead of replacing it
StoreUsageMerge(rep, usage) ==
    IF ~usage.ok THEN Raise(usage.exc, rep)
    ELSE IF "usage" \notin DOMAIN rep
         THEN [ok |-> TRUE, report |-> Put(rep, "usage", usage.usage)]
         ELSE [ok |-> TRUE,
               report |-> Put(rep, "usage",
                              [k \in DOMAIN rep["usage"] \cup DOMAIN usage.usage |->
                                  IF k \in DOMAIN usage.usage THEN usage.usage[k]
                                  ELSE rep["usage"][k]])]

\* jobReport["usage"] = parse_resources(chunk)
StoreUsage(rep, usage) ==
    IF ~usage.ok THEN Raise(usage.exc, rep)
    ELSE [ok |-> TRUE, report |-> Put(rep, "usage", usage.usage)]

\* StoreRunTime with runTime defaulted to 0 when execTime is missing
StoreRunTimeDefault(timed, key, c) ==
    IF ~timed.ok THEN timed
    ELSE IF "execTime" \notin DOMAIN timed.report
         THEN StoreUsage(Put(timed.report, "runTime", 0), parse_resources(c))
         ELSE StoreUsage(Put(timed.report, "runTime",
                             WholeSeconds(Minus(timed.report[key], timed.report["execTime"]))),
                         parse_resources(c))

\* runTime = jobReport[key] - jobReport["execTime"]: KeyError without execTime
StoreRunTime(timed, key, c) ==
    IF ~timed.ok THEN timed
    ELSE IF "execTime" \notin DOMAIN timed.report
         THEN Raise("KeyError", timed.report)
         ELSE StoreUsage(Put(timed.report, "runTime",
                             WholeSeconds(Minus(timed.report[key], timed.report["execTime"]))),
                         parse_resources(c))

SetTerminal(rep, key, c, clock) == StoreRunTime(SetTime(rep, key, c, clock), key, c)

\* the 009 branch with the runTime computation of lines 99-100 enabled
SetAbortedRunTime(rep, c, clock) ==
    StoreRunTime(SetTime(rep, "abortedTime", c, clock), "abortedTime", <<>>)

\* the 009 branch
SetAborted(rep, c, clock) == SetTime(rep, "abortedTime", c, clock)

\* the 006 branch and the final else, with the time of the event stored
IgnoreStamped(rep, c, clock) == SetTime(rep, "imageTime", c, clock)

\* the 006 branch (pass) and the final else (a diagnostic print at most)
Ignore(rep, c, clock) == [ok |-> TRUE, report |-> rep]

\* the chain with each test an equality on the first space-separated field
\* of the first line
DispatchByField(c, rep, clock) ==
    IF split(FirstLine(c), SP)[1] = C000 THEN SetTime(rep, "subTime", c, clock)
    ELSE IF split(FirstLine(c), SP)[1] = C001 THEN SetTime(rep, "execTime", c, clock)
    ELSE IF split(FirstLine(c), SP)[1] = C004 THEN SetTerminal(rep, "evictTime", c, clock)
    ELSE IF split(FirstLine(c), SP)[1] = C005 THEN SetTerminal(rep, "termTime", c, clock)
    ELSE IF split(FirstLine(c), SP)[1] = C006 THEN Ignore(rep, c, clock)
    ELSE IF split(FirstLine(c), SP)[1] = C009 THEN SetAborted(rep, c, clock)
    ELSE Ignore(rep, c, clock)

\* the if/elif chain run on a separator line
Dispatch(c, rep, clock) ==
    IF startswith(c, C000) THEN SetTime(rep, "subTime", c, clock)
    ELSE IF startswith(c, C001) THEN SetTime(rep, "execTime", c, clock)
    ELSE IF startswith(c, C004) THEN SetTerminal(rep, "evictTime", c, clock)
    ELSE IF startswith(c, C005) THEN SetTerminal(rep, "termTime", c, clock)
    ELSE IF startswith(c, C006) THEN Ignore(rep, c, clock)
    ELSE IF startswith(c, C009) THEN SetAborted(rep, c, clock)
    ELSE Ignore(rep, c, clock)

\* whether the branch taken for chunk c calls parse_time (and reads the clock)
ReadsClock(c) ==
    \E code \in {C000, C001, C004, C005, C009} : startswith(c, code)

Pending == [kind |-> "pending"]

NoDispatch == [chunk |-> <<>>, before |-> EmptyDict, clock |-> [year |-> 0, month |-> 0], ok |-> FALSE]

LocalsIdle ==
    /\ pos' = 0
    /\ chunk' = <<>>
    /\ jobReport' = EmptyDict

PureIdle == UNCHANGED <<ptLine, ptOut, prChunk, prOut, argv, matches, idx, mpc, reads>>

\* nothing is printed
Silent == UNCHANGED stdout

\* print("Couldn't find file at %s" % path)
PrintNotFound == stdout' = Append(stdout, [kind |-> "message", text |-> "Couldn't find file at", path |-> Path])

\* OpenOk with a process-global invocation counter written into the report
OpenOkCounter ==
    /\ pc = "call"
    /\ fs.exists
    /\ pc' = "loop"
    /\ pos' = 0
    /\ chunk' = <<>>
    /\ jobReport' = Put(Put(EmptyDict, "path", Path), "seq", run)
    /\ UNCHANGED <<now, ticks, fs, outcome, run, first, seen, last>>
    /\ PureIdle
    /\ Silent

\* OpenOk with the report initialised with a default runTime
OpenOkDefaults ==
    /\ pc = "call"
    /\ fs.exists
    /\ pc' = "loop"
    /\ pos' = 0
    /\ chunk' = <<>>
    /\ jobReport' = Put(Put(EmptyDict, "path", Path), "runTime", 0)
    /\ UNCHANGED <<now, ticks, fs, outcome, run, first, seen, last>>
    /\ PureIdle
    /\ Silent

\* with open(path) as logfile: succeeds
OpenOk ==
    /\ pc = "call"
    /\ fs.exists
    /\ pc' = "loop"
    /\ pos' = 0
    /\ chunk' = <<>>
    /\ jobReport' = Put(EmptyDict, "path", Path)
    /\ UNCHANGED <<now, ticks, fs, outcome, run, first, seen, last>>
    /\ PureIdle
    /\ Silent

\* open(path) raises IOError: except IOError -> return None
OpenFail ==
    /\ pc = "call"
    /\ ~fs.exists
    /\ pc' = "done"
    /\ outcome' = [kind |-> "None"]
    /\ UNCHANGED <<now, ticks, fs, pos, chunk, jobReport, run, first, seen, last>>
    /\ PureIdle
    /\ PrintNotFound

\* ReadLine with the line terminator stripped before the line is appended
ReadLineStripped ==
    /\ pc = "loop"
    /\ pos < Len(fs.lines)
    /\ ~startswith(fs.lines[pos + 1], Separator)
    /\ chunk' = chunk \o SubSeq(fs.lines[pos + 1], 1, Len(fs.lines[pos + 1]) - 1)
    /\ pos' = pos + 1
    /\ UNCHANGED <<now, ticks, fs, pc, jobReport, outcome, run, first, seen, last>>
    /\ PureIdle
    /\ Silent

\* the loop reads a line that does not start with "...": chunk += line
ReadLine ==
    /\ pc = "loop"
    /\ pos < Len(fs.lines)
    /\ ~startswith(fs.lines[pos + 1], Separator)
    /\ chunk' = chunk \o fs.lines[pos + 1]
    /\ pos' = pos + 1
    /\ UNCHANGED <<now, ticks, fs, pc, jobReport, outcome, run, first, seen, last>>
    /\ PureIdle
    /\ Silent

\* Dispatched under a bare `except:`: every exception returns None
DispatchedCatchAll(r) ==
    /\ last' = [chunk |-> chunk, before |-> jobReport, clock |-> now, ok |-> r.ok]
    /\ seen' = IF ReadsClock(chunk) THEN seen \cup {now} ELSE seen
    /\ jobReport' = r.report
    /\ IF r.ok
       THEN /\ chunk' = <<>>
            /\ pos' = pos + 1
            /\ UNCHANGED <<pc, outcome>>
       ELSE /\ pc' = "done"
            /\ outcome' = [kind |-> "None"]
            /\ UNCHANGED <<chunk, pos>>

\* the effect of a dispatch with result r: chunk = "" and on to the next
\* line, or the exception leaves read_log
Dispatched(r) ==
    /\ last' = [chunk |-> chunk, before |-> jobReport, clock |-> now, ok |-> r.ok]
    /\ seen' = IF ReadsClock(chunk) THEN seen \cup {now} ELSE seen
    /\ jobReport' = r.report
    /\ IF r.ok
       THEN /\ chunk' = <<>>
            /\ pos' = pos + 1
            /\ UNCHANGED <<pc, outcome>>
       ELSE /\ pc' = "done"
            /\ outcome' = [kind |-> "raise", exc |-> r.exc]
            /\ UNCHANGED <<chunk, pos>>

\* the loop reads a separator line: the chunk is dispatched, then cleared
ReadSeparator ==
    /\ pc = "loop"
    /\ pos < Len(fs.lines)
    /\ startswith(fs.lines[pos + 1], Separator)
    /\ Dispatched(Dispatch(chunk, jobReport, now))
    /\ UNCHANGED <<now, ticks, fs, run, first>>
    /\ PureIdle
    /\ Silent

\* reading the next line raises IOError: except IOError -> return None
ReadFail ==
    /\ pc = "loop"
    /\ pc' = "done"
    /\ outcome' = [kind |-> "None"]
    /\ UNCHANGED <<now, ticks, fs, pos, chunk, jobReport, run, first, seen, last>>
    /\ PureIdle
    /\ PrintNotFound

\* EndOfFile with the lines after the last separator dispatched as a last chunk
EndOfFileFlush ==
    /\ pc = "loop"
    /\ pos = Len(fs.lines)
    /\ pc' = "done"
    /\ outcome' = IF Dispatch(chunk, jobReport, now).ok
                  THEN [kind |-> "report", value |-> Dispatch(chunk, jobReport, now).report]
                  ELSE [kind |-> "raise", exc |-> Dispatch(chunk, jobReport, now).exc]
    /\ UNCHANGED <<now, ticks, fs, pos, chunk, jobReport, run, first, seen, last>>
    /\ PureIdle
    /\ Silent

\* the loop is exhausted: return jobReport
EndOfFile ==
    /\ pc = "loop"
    /\ pos = Len(fs.lines)
    /\ pc' = "done"
    /\ outcome' = [kind |-> "report", value |-> jobReport]
    /\ UNCHANGED <<now, ticks, fs, pos, chunk, jobReport, run, first, seen, last>>
    /\ PureIdle
    /\ Silent

\* read_log is called a second time on the same path, with fresh locals
SecondCall ==
    /\ pc = "done"
    /\ run = 1
    /\ run' = 2
    /\ first' = outcome
    /\ outcome' = Pending
    /\ pc' = "call"
    /\ last' = NoDispatch
    /\ LocalsIdle
    /\ UNCHANGED <<now, ticks, fs, seen>>
    /\ PureIdle
    /\ Silent

MaxTicks == 1

\* the wall clock passes into the next month
Tick ==
    /\ ticks < MaxTicks
    /\ ~(pc = "done" /\ run = 2)
    /\ ticks' = ticks + 1
    /\ now' = IF now.month = 12 THEN [year |-> now.year + 1, month |-> 1]
              ELSE [year |-> now.year, month |-> now.month + 1]
    /\ UNCHANGED <<fs, pc, pos, chunk, jobReport, outcome, run, first, seen, last>>
    /\ PureIdle
    /\ Silent

Next ==
    \/ OpenOk
    \/ OpenFail
    \/ ReadLine
    \/ ReadSeparator
    \/ ReadFail
    \/ EndOfFile
    \/ SecondCall
    \/ Tick

----------------------------------------------------------------------------
(* Inputs: log text as HTCondor writes it *)

RECURSIVE Fmt(_, _)
\* n in decimal, zero-padded to width w
Fmt(n, w) == IF w = 0 THEN <<>> ELSE Fmt(n \div 10, w - 1) \o <<DigitChars[(n % 10) + 1]>>

TimeOfDay(t) == Fmt(t[1], 2) \o <<":">> \o Fmt(t[2], 2) \o <<":">> \o Fmt(t[3], 2)

\* "YYYY-MM-DD HH:MM:SS"
IsoStamp(y, m, d, t) ==
    Fmt(y, 4) \o <<"-">> \o Fmt(m, 2) \o <<"-">> \o Fmt(d, 2) \o <<SP>> \o TimeOfDay(t)

\* "MM/DD HH:MM:SS"
DocStamp(m, d, t) == Fmt(m, 2) \o <<"/">> \o Fmt(d, 2) \o <<SP>> \o TimeOfDay(t)

JobId == <<"(", "1", ")">>

\* "<code> (<id>) <stamp> <free text>", without line terminator
Header(code, stamp) == code \o <<SP>> \o JobId \o <<SP>> \o stamp \o <<SP, "x">>

Codes == {C000, C001, C004, C005, C006, C009}

TimedCodes == {C000, C001, C004, C005, C009}

SepLine == Separator \o <<NL>>

Seqs(S, n) == UNION {[1..k -> S] : k \in 0..n}

(* parse_time on its own *)

Months == {1, 2, 12, 13}

Days == {1, 29, 40}

Times == {<<15, 16, 50>>, <<0, 0, 0>>, <<99, 99, 99>>}

TextYears == {2023, 2024}

TimeLines ==
    {Header(C001, IsoStamp(y, m, d, t)) : y \in TextYears, m \in Months, d \in Days, t \in Times}
    \cup {Header(C001, DocStamp(m, d, t)) : m \in Months, d \in Days, t \in Times}
    \cup {C001 \o <<SP>> \o JobId, <<>>}

Clocks == {[year |-> y, month |-> m] : y \in {2023, 2024}, m \in {1, 12}}

Idle == [st |-> "idle"]

\* main is not running
MainIdle ==
    /\ stdout = <<>>
    /\ argv = <<>>
    /\ matches = <<>>
    /\ idx = 0
    /\ mpc = "idle"
    /\ reads = <<>>

ReadLogIdle ==
    /\ MainIdle
    /\ fs = [exists |-> FALSE, lines |-> <<>>]
    /\ pc = "idle"
    /\ pos = 0
    /\ chunk = <<>>
    /\ jobReport = EmptyDict
    /\ outcome = Pending
    /\ run = 0
    /\ first = Pending
    /\ seen = {}
    /\ last = NoDispatch
    /\ ticks = 0

InitTime ==
    /\ now \in Clocks
    /\ ptLine \in TimeLines
    /\ ptOut = Idle
    /\ prChunk = <<>>
    /\ prOut = Idle
    /\ ReadLogIdle

CallParseTime ==
    /\ ptOut = Idle
    /\ ptOut' = [st |-> "done", r |-> parse_time(ptLine, now)]
    /\ UNCHANGED <<now, ticks, ptLine, prChunk, prOut, fs, pc, pos, chunk,
                   jobReport, outcome, run, first, seen, last, stdout, argv,
                   matches, idx, mpc, reads>>

NextTime == CallParseTime

SpecTime == InitTime /\ [][NextTime]_vars

(* parse_resources on its own *)

\* "Disk Usage of job (KB)     :  1024  2048  50"
DiskExample ==
    <<"D", "i", "s", "k", SP, "U", "s", "a", "g", "e", SP, "o", "f", SP, "j",
      "o", "b", SP, "(", "K", "B", ")", SP, SP, SP, SP, SP, ":", SP, SP, "1",
      "0", "2", "4", SP, SP, "2", "0", "4", "8", SP, SP, "5", "0">>

\* "Memory (MB)                :  512  1024"
MemoryExample ==
    <<"M", "e", "m", "o", "r", "y", SP, "(", "M", "B", ")", SP, SP, SP, SP,
      SP, SP, SP, SP, SP, SP, SP, SP, SP, SP, SP, SP, ":", SP, SP, "5", "1",
      "2", SP, SP, "1", "0", "2", "4">>

ResourceLines ==
    { DiskExample,
      MemoryExample,
      KeyDisk \o <<SP, "1", "x", SP, "7", SP, "9">>,
      KeyMemory \o <<SP, "a", "3", SP, SP, "0", "4", "2">>,
      KeyDisk \o <<SP>> \o KeyMemory \o <<SP, "6">>,
      KeyDisk \o <<SP, "n", "/", "a">>,
      <<"d", "i", "s", "k", SP, "3">>,
      <<"C", "p", "u", "s", SP, "1">>,
      <<>> }

MaxResLines == 3

Join(lines) == Concat([i \in 1..Len(lines) |-> lines[i] \o <<NL>>])

InitRes ==
    /\ now = [year |-> 2024, month |-> 1]
    /\ ptLine = <<>>
    /\ ptOut = Idle
    /\ prChunk \in {Join(ls) : ls \in Seqs(ResourceLines, MaxResLines)}
    /\ prOut = Idle
    /\ ReadLogIdle

CallParseResources ==
    /\ prOut = Idle
    /\ prOut' = [st |-> "done", r |-> parse_resources(prChunk)]
    /\ UNCHANGED <<now, ticks, ptLine, ptOut, prChunk, fs, pc, pos, chunk,
                   jobReport, outcome, run, first, seen, last, stdout, argv,
                   matches, idx, mpc, reads>>

NextRes == CallParseResources

SpecRes == InitRes /\ [][NextRes]_vars

(* read_log on whole files *)

ExecAt == IsoStamp(2023, 12, 30, <<10, 0, 0>>)

EvictAt == IsoStamp(2023, 12, 31, <<9, 0, 0>>)

TermAt == IsoStamp(2024, 1, 2, <<10, 0, 5>>)

DiskLine == KeyDisk \o <<SP, ":", SP, "7", SP, "9", NL>>

MemoryLine == KeyMemory \o <<SP, ":", SP, "5", NL>>

\* an event block: its first line, the lines of its body, the separator
Block(code, stamp, body) == <<Header(code, stamp) \o <<NL>>>> \o body \o <<SepLine>>

Blocks ==
    { Block(C000, ExecAt, <<>>),
      Block(C001, ExecAt, <<>>),
      Block(C004, EvictAt, <<DiskLine>>),
      Block(C005, TermAt, <<DiskLine, MemoryLine>>),
      Block(C006, EvictAt, <<>>),
      Block(C009, EvictAt, <<>>),
      Block(C001, DocStamp(13, 40, <<99, 99, 99>>), <<>>) }

MaxBlocks == 3

Files(blocks, n) == {Concat(bs) : bs \in Seqs(blocks, n)}

InitClocks == {[year |-> 2023, month |-> 12], [year |-> 2024, month |-> 1]}

InitReadLog(files) ==
    /\ now \in InitClocks
    /\ ticks = 0
    /\ ptLine = <<>>
    /\ ptOut = Idle
    /\ prChunk = <<>>
    /\ prOut = Idle
    /\ fs \in {[exists |-> FALSE, lines |-> <<>>]}
              \cup {[exists |-> TRUE, lines |-> f] : f \in files}
    /\ pc = "call"
    /\ pos = 0
    /\ chunk = <<>>
    /\ jobReport = EmptyDict
    /\ outcome = Pending
    /\ run = 1
    /\ first = Pending
    /\ seen = {}
    /\ last = NoDispatch
    /\ MainIdle

Init == InitReadLog(Files(Blocks, MaxBlocks))

Spec == Init /\ [][Next]_vars

(* read_log on files in which events of one kind occur more than once *)

Disk8Line == KeyDisk \o <<SP, ":", SP, "8", NL>>

OrderBlocks ==
    { Block(C000, ExecAt, <<>>),
      Block(C000, EvictAt, <<>>),
      Block(C001, ExecAt, <<>>),
      Block(C001, EvictAt, <<>>),
      Block(C004, EvictAt, <<DiskLine, MemoryLine>>),
      Block(C005, TermAt, <<Disk8Line>>),
      Block(C009, EvictAt, <<>>),
      Block(C009, TermAt, <<>>) }

InitOrder == InitReadLog(Files(OrderBlocks, MaxBlocks))

\* one invocation of read_log
NextOnce ==
    \/ OpenOk
    \/ OpenFail
    \/ ReadLine
    \/ ReadSeparator
    \/ ReadFail
    \/ EndOfFile
    \/ Tick

SpecOrder == InitOrder /\ [][NextOnce]_vars

(* read_log on files whose last block carries a good or a bad timestamp *)

BadStamps ==
    { DocStamp(13, 40, <<99, 99, 99>>),
      IsoStamp(2023, 13, 1, <<10, 0, 0>>),
      IsoStamp(2023, 12, 40, <<10, 0, 0>>),
      IsoStamp(2023, 12, 30, <<99, 99, 99>>),
      <<"s", "o", "o", "n", SP, "n", "o", "w">> }

GoodStamps == {ExecAt, TermAt}

StampFiles ==
    {prefix \o Block(code, stamp, body) :
        prefix \in {<<>>, Block(C001, ExecAt, <<>>)},
        code \in TimedCodes,
        stamp \in BadStamps \cup GoodStamps,
        body \in {<<>>, <<DiskLine>>}}

InitStamp == InitReadLog(StampFiles)

SpecStamp == InitStamp /\ [][Next]_vars

----------------------------------------------------------------------------
(* Properties of parse_time (SpecTime) *)

TwoDigits(s) == Len(s) = 2 /\ isdigit(s)

\* the fields of a first line of the documented shape
\* "<3-digit code> (<id>) MM/DD HH:MM:SS <free text>"
DocFields(line) ==
    [md |-> split(split(line, SP)[3], "/"), hms |-> split(split(line, SP)[4], ":")]

\* line has the documented shape, with month, day and time in calendar range
IsDocShape(line) ==
    /\ Len(split(line, SP)) >= 5
    /\ Len(split(line, SP)[1]) = 3
    /\ isdigit(split(line, SP)[1])
    /\ startswith(split(line, SP)[2], <<"(">>)
    /\ Len(DocFields(line).md) = 2
    /\ Len(DocFields(line).hms) = 3
    /\ \A i \in 1..2 : TwoDigits(DocFields(line).md[i])
    /\ \A i \in 1..3 : TwoDigits(DocFields(line).hms[i])
    /\ int(DocFields(line).md[1]) \in 1..12
    /\ int(DocFields(line).md[2]) \in 1..DaysInMonth(2024, int(DocFields(line).md[1]))
    /\ int(DocFields(line).hms[1]) \in 0..23
    /\ int(DocFields(line).hms[2]) \in 0..59
    /\ int(DocFields(line).hms[3]) \in 0..59

\* C2: for every first line of the documented shape (MM/DD HH:MM:SS, values
\* in calendar range), parse_time succeeds and returns a timestamp with
\* exactly that month, day and time of day.
C2_DocShapeResolves ==
    (ptOut.st = "done" /\ IsDocShape(ptLine)) =>
        /\ ptOut.r.ok
        /\ ptOut.r.dt.month = int(DocFields(ptLine).md[1])
        /\ ptOut.r.dt.day = int(DocFields(ptLine).md[2])
        /\ ptOut.r.dt.hour = int(DocFields(ptLine).hms[1])
        /\ ptOut.r.dt.minute = int(DocFields(ptLine).hms[2])
        /\ ptOut.r.dt.second = int(DocFields(ptLine).hms[3])

\* C3: whenever parse_time resolves a timestamp, its year is now.year - 1 if
\* the parsed month is December and the current month is January, and
\* now.year otherwise; nothing else (the year written in the text included)
\* has an influence.
C3_YearInference ==
    (ptOut.st = "done" /\ ptOut.r.ok) =>
        ptOut.r.dt.year = IF ptOut.r.dt.month = 12 /\ now.month = 1
                          THEN now.year - 1
                          ELSE now.year

\* a 12-29 15:16:50 timestamp resolved in January 2024 carries the year 2023
C3_Witness ==
    /\ ptOut.st = "done"
    /\ ptOut.r.ok
    /\ now = [year |-> 2024, month |-> 1]
    /\ ptOut.r.dt = [year |-> 2023, month |-> 12, day |-> 29,
                     hour |-> 15, minute |-> 16, second |-> 50]

----------------------------------------------------------------------------
(* Properties of parse_resources (SpecRes) *)

\* positions i..j of line hold one whitespace-delimited token
TokenAt(line, i, j) ==
    /\ i <= j
    /\ i = 1 \/ line[i - 1] \in Whitespace
    /\ j = Len(line) \/ line[j + 1] \in Whitespace
    /\ \A k \in i..j : line[k] \notin Whitespace

DigitTokens(line) ==
    {ij \in (1..Len(line)) \X (1..Len(line)) :
        TokenAt(line, ij[1], ij[2]) /\ isdigit(SubSeq(line, ij[1], ij[2]))}

\* the leftmost all-digit token of line, as a number
FirstDigitToken(line) ==
    LET ij == CHOOSE a \in DigitTokens(line) : \A b \in DigitTokens(line) : a[1] <= b[1]
    IN  int(SubSeq(line, ij[1], ij[2]))

LinesOf(text) == split(text, NL)

\* the last line of text that contains word
LastWith(text, word) ==
    LinesOf(text)[CHOOSE i \in 1..Len(LinesOf(text)) :
                    /\ Contains(LinesOf(text)[i], word)
                    /\ \A j \in (i + 1)..Len(LinesOf(text)) : ~Contains(LinesOf(text)[j], word)]

HasLine(text, word) == \E i \in 1..Len(LinesOf(text)) : Contains(LinesOf(text)[i], word)

\* C8: the value parse_resources returns for a line containing "Disk"
\* ("Memory") is the first all-digit whitespace-delimited token of that line,
\* left to right (the last such line of the chunk prevails); the two example
\* lines give {diskUsage: 1024, memUsage: 512}.
C8_FirstNumericToken ==
    (prOut.st = "done" /\ prOut.r.ok) =>
        /\ HasLine(prChunk, KeyDisk) =>
              prOut.r.usage["diskUsage"] = FirstDigitToken(LastWith(prChunk, KeyDisk))
        /\ HasLine(prChunk, KeyMemory) =>
              prOut.r.usage["memUsage"] = FirstDigitToken(LastWith(prChunk, KeyMemory))
        /\ prChunk = Join(<<DiskExample, MemoryExample>>) =>
              prOut.r.usage = [diskUsage |-> 1024, memUsage |-> 512]

\* the example table has been parsed
C8_Witness ==
    /\ prOut.st = "done"
    /\ prOut.r.ok
    /\ prChunk = Join(<<DiskExample, MemoryExample>>)
    /\ prOut.r.usage = [diskUsage |-> 1024, memUsage |-> 512]

\* C9: for every chunk text parse_resources returns a mapping and does not
\* fail; the mapping has diskUsage exactly when some line contains "Disk"
\* and memUsage exactly when some line contains "Memory".
C9_NeverFails ==
    prOut.st = "done" =>
        /\ prOut.r.ok
        /\ "diskUsage" \in DOMAIN prOut.r.usage <=> HasLine(prChunk, KeyDisk)
        /\ "memUsage" \in DOMAIN prOut.r.usage <=> HasLine(prChunk, KeyMemory)

----------------------------------------------------------------------------
(* Properties of read_log (Spec, SpecStamp) *)

\* the seconds that pass from the moment b to the moment a
Elapsed(a, b) == (ToOrdinal(a) - ToOrdinal(b)) * 86400 + SecondOfDay(a) - SecondOfDay(b)

IsTerminal(c) == startswith(c, C004) \/ startswith(c, C005)

TerminalKey(c) == IF startswith(c, C004) THEN "evictTime" ELSE "termTime"

\* the most recent dispatch was of a 004 or 005 chunk, went through, and
\* found an execTime stored
TerminalDispatched ==
    /\ last.ok
    /\ IsTerminal(last.chunk)
    /\ "execTime" \in DOMAIN last.before

\* C1: a 004 or 005 chunk dispatched while an execTime is stored sets runTime
\* to (the chunk's resolved timestamp - the stored execTime) in whole
\* seconds; a log that ends in such a chunk returns a report whose runTime is
\* terminalTime - execTime.
C1_RunTimeIsDifference ==
    TerminalDispatched =>
        /\ jobReport["runTime"] =
              Elapsed(parse_time(FirstLine(last.chunk), last.clock).dt,
                      last.before["execTime"])
        /\ (pc = "done" /\ outcome.kind = "report") =>
              outcome.value["runTime"] =
                  Elapsed(outcome.value[TerminalKey(last.chunk)],
                          outcome.value["execTime"])

\* a log ending in a 005 chunk more than a day after its 001 chunk returned
C1_Witness ==
    /\ TerminalDispatched
    /\ pc = "done"
    /\ outcome.kind = "report"
    /\ startswith(last.chunk, C005)
    /\ outcome.value["runTime"] = 3 * 86400 + 5

MalformedFirstLines ==
    {Header(code, stamp) : code \in TimedCodes, stamp \in BadStamps}

MalformedDispatched ==
    /\ last.chunk # <<>>
    /\ FirstLine(last.chunk) \in MalformedFirstLines

MissingExecDispatched ==
    /\ IsTerminal(last.chunk)
    /\ "execTime" \notin DOMAIN last.before

C6_AbsentOnlyIfUnopenable ==
    pc = "done" => (outcome.kind = "None" <=> ~fs.exists)

\* C6 amended: a path that cannot be opened gives None and no error; None is
\* returned only when opening the file or reading a line raises IOError,
\* never by the dispatch of a chunk.
C6_AbsentOnlyOnIOError ==
    /\ [](pc = "done" /\ ~fs.exists => outcome.kind = "None")
    /\ [][(outcome.kind # "None" /\ outcome'.kind = "None") => (OpenFail \/ ReadFail)]_vars

\* read_log on a path that cannot be opened returned None
C6_Witness ==
    /\ ~fs.exists
    /\ pc = "done"
    /\ outcome = [kind |-> "None"]

FrameOf009 == {"path", "subTime", "execTime", "evictTime", "termTime", "runTime", "usage"}

\* C7: the dispatch of a 009 chunk sets abortedTime and leaves runTime,
\* subTime, execTime, evictTime, termTime and usage as they were, present or
\* absent.
C7_AbortKeepsRunTime ==
    startswith(last.chunk, C009) =>
        /\ last.ok => jobReport["abortedTime"] = parse_time(FirstLine(last.chunk), last.clock).dt
        /\ \A k \in FrameOf009 :
              /\ k \in DOMAIN jobReport <=> k \in DOMAIN last.before
              /\ k \in DOMAIN jobReport => jobReport[k] = last.before[k]

\* a 009 chunk was dispatched after a runTime had been computed
C7_Witness ==
    /\ startswith(last.chunk, C009)
    /\ last.ok
    /\ "runTime" \in DOMAIN last.before
    /\ "abortedTime" \in DOMAIN jobReport

BothReturned ==
    /\ run = 2
    /\ pc = "done"
    /\ first.kind = "report"
    /\ outcome.kind = "report"

\* C10 as stated: two invocations on the same file content return identical
\* reports, whatever the ambient state.
C10_SameReportTwice == BothReturned => first.value = outcome.value

\* C10 amended: two invocations on the same file content return identical
\* reports provided the clock shows the same year and month at every
\* timestamp resolution of both.
C10_SameReportSameClock ==
    (BothReturned /\ Cardinality(seen) <= 1) => first.value = outcome.value

\* both invocations returned a report with a runTime under one clock value
C10_Witness ==
    /\ BothReturned
    /\ Cardinality(seen) = 1
    /\ "runTime" \in DOMAIN outcome.value
    /\ first.value = outcome.value

----------------------------------------------------------------------------
(* The chunks of a file, read off its lines *)

\* some chunk has been dispatched in this invocation
HasDispatched == last.clock # NoDispatch.clock

\* a dispatch has just completed: the buffer is empty and the loop goes on
JustDispatched == pc = "loop" /\ chunk = <<>> /\ HasDispatched /\ last.ok

\* the separator lines among the first n lines
SepIndexes(lines, n) == {i \in 1..n : startswith(lines[i], Separator)}

\* the last separator line among the first n lines, 0 if there is none
PrevSep(lines, n) ==
    LET S == SepIndexes(lines, n)
    IN  IF S = {} THEN 0 ELSE CHOOSE i \in S : \A j \in S : j <= i

\* the text of lines a..b
TextOf(lines, a, b) == Concat(SubSeq(lines, a, b))

\* the chunk that the separator line i ends
ChunkEndingAt(lines, i) == TextOf(lines, PrevSep(lines, i - 1) + 1, i - 1)

\* the chunks dispatched when the first n lines have been consumed
DispatchedChunks(lines, n) == {ChunkEndingAt(lines, i) : i \in SepIndexes(lines, n)}

TimeKeys == {"subTime", "execTime", "evictTime", "termTime", "abortedTime"}

CodeOfKey(k) ==
    CASE k = "subTime" -> C000
      [] k = "execTime" -> C001
      [] k = "evictTime" -> C004
      [] k = "termTime" -> C005
      [] k = "abortedTime" -> C009

\* the report is under construction or has been returned
ReportLive == pc = "loop" \/ (pc = "done" /\ outcome.kind = "report")

\* the points at which the report or the set of dispatched chunks can differ
\* from the step before: the buffer is empty (after open and after every
\* dispatch) or the report has been returned
ReportSettled == (pc = "loop" /\ chunk = <<>>) \/ (pc = "done" /\ outcome.kind = "report")

\* C11: at every point of a parse the report contains path, and a field only
\* if a chunk of its code has been dispatched; runTime and usage appear only
\* after a 004 or 005 chunk and always together; a log with only a 000 chunk
\* yields a report with exactly path and subTime.
C11_FieldsFollowCodes ==
    ReportLive =>
        /\ "path" \in DOMAIN jobReport
        /\ DOMAIN jobReport \subseteq {"path", "runTime", "usage"} \cup TimeKeys
        /\ ReportSettled =>
              \A k \in TimeKeys \cap DOMAIN jobReport :
                  \E c \in DispatchedChunks(fs.lines, pos) : startswith(c, CodeOfKey(k))
        /\ "runTime" \in DOMAIN jobReport <=> "usage" \in DOMAIN jobReport
        /\ (ReportSettled /\ "runTime" \in DOMAIN jobReport) =>
              \E c \in DispatchedChunks(fs.lines, pos) : IsTerminal(c)
        /\ (pc = "done" /\ fs.lines = Block(C000, ExecAt, <<>>)) =>
              DOMAIN outcome.value = {"path", "subTime"}

\* a log with only a 000 chunk returned a report with path and subTime only
C11_Witness ==
    /\ pc = "done"
    /\ outcome.kind = "report"
    /\ fs.lines = Block(C000, ExecAt, <<>>)
    /\ DOMAIN outcome.value = {"path", "subTime"}

\* the separator lines among the first n lines whose chunk begins with code
EndsOf(lines, n, code) ==
    {i \in SepIndexes(lines, n) : startswith(ChunkEndingAt(lines, i), code)}

\* the most recent chunk beginning with code among the chunks dispatched
\* when the first n lines have been consumed
LastChunkWith(lines, n, code) ==
    LET E == EndsOf(lines, n, code)
    IN  ChunkEndingAt(lines, CHOOSE i \in E : \A j \in E : j <= i)

\* the timestamp written on the first line of chunk c, with the year the
\* log gives it
TextStamp(c) == strptime(split(FirstLine(c), SP)[3], split(FirstLine(c), SP)[4]).dt

\* the terminal event of the last dispatch really occurred at or after the
\* start of the execution it ends
TrueOrder ==
    Elapsed(TextStamp(last.chunk), TextStamp(LastChunkWith(fs.lines, pos, C001))) >= 0

\* both timestamps were resolved to the years in which the events occurred
TrueYears ==
    /\ jobReport[TerminalKey(last.chunk)].year = TextStamp(last.chunk).year
    /\ last.before["execTime"].year = TextStamp(LastChunkWith(fs.lines, pos, C001)).year

\* C12 as stated: for a log in true chronological order, processed at any
\* current date, runTime is never negative.
C12_NeverNegative ==
    (JustDispatched /\ TerminalDispatched /\ TrueOrder) => jobReport["runTime"] >= 0

\* C12 amended: for a log in true chronological order, runTime is never
\* negative provided the current date resolves both timestamps to the years
\* in which the events occurred.
C12_NeverNegativeTrueYears ==
    (JustDispatched /\ TerminalDispatched /\ TrueOrder /\ TrueYears) =>
        jobReport["runTime"] >= 0

\* a log from 30 December to 2 January, read in the January that follows
C12_Witness ==
    /\ TerminalDispatched
    /\ TrueOrder
    /\ TrueYears
    /\ TextStamp(last.chunk).year = 2024
    /\ last.before["execTime"].year = 2023
    /\ jobReport["runTime"] > 0

FinalReport == pc = "done" /\ outcome.kind = "report"

\* the separator lines among the first n lines that end a 004 or 005 chunk
TerminalEnds(lines, n) ==
    {i \in SepIndexes(lines, n) : IsTerminal(ChunkEndingAt(lines, i))}

\* the separator line that ends the last 004 or 005 chunk
LastTerminalEnd(lines, n) ==
    LET E == TerminalEnds(lines, n)
    IN  CHOOSE i \in E : \A j \in E : j <= i

\* the last 004 or 005 chunk in file order
LastTerminal(lines, n) == ChunkEndingAt(lines, LastTerminalEnd(lines, n))

\* runTime of the report is the time from its execTime to its latest
\* terminal event time
RunTimeMatchesReport ==
    /\ TerminalEnds(fs.lines, pos) # {}
    /\ outcome.value["runTime"] =
            Elapsed(outcome.value[TerminalKey(LastTerminal(fs.lines, pos))],
                    outcome.value["execTime"])

NoExecAfterTerminal ==
    \A i \in EndsOf(fs.lines, pos, C001) :
        \A j \in TerminalEnds(fs.lines, pos) : i < LastTerminalEnd(fs.lines, pos)

\* C13 as stated: in every final report that contains runTime, runTime is the
\* difference between the latest terminal event time in the report and the
\* execTime in the report, also when a 001 chunk follows the last 004/005.
C13_RunTimeMatchesReport ==
    (FinalReport /\ "runTime" \in DOMAIN outcome.value) => RunTimeMatchesReport

\* C13 amended: the same, for logs in which no 001 chunk follows the last
\* 004/005 chunk; a 001 chunk leaves runTime as it was computed.
C13_RunTimeMatchesUnlessReexecuted ==
    /\ (FinalReport /\ "runTime" \in DOMAIN outcome.value /\ NoExecAfterTerminal) =>
          RunTimeMatchesReport
    /\ (last.ok /\ startswith(last.chunk, C001) /\ "runTime" \in DOMAIN last.before) =>
          jobReport["runTime"] = last.before["runTime"]

\* a report with runTime was returned for a log whose last 004/005 chunk is
\* followed by other chunks, none of them a 001 chunk
C13_Witness ==
    /\ FinalReport
    /\ "runTime" \in DOMAIN outcome.value
    /\ NoExecAfterTerminal
    /\ ~IsTerminal(last.chunk)
    /\ last.ok
    /\ RunTimeMatchesReport

\* the usage mapping that the text of chunk c determines
ExpectedUsage(c) ==
    [k \in {key \in {"diskUsage", "memUsage"} :
                HasLine(c, IF key = "diskUsage" THEN KeyDisk ELSE KeyMemory)} |->
        FirstDigitToken(LastWith(c, IF k = "diskUsage" THEN KeyDisk ELSE KeyMemory))]

SameField(k, a, b) ==
    /\ k \in DOMAIN a <=> k \in DOMAIN b
    /\ k \in DOMAIN a => a[k] = b[k]

\* C15: runTime and usage of the final report are those computed from the
\* last 004-or-005 chunk in file order; a later 004/005 chunk replaces the
\* runTime and the whole usage mapping of an earlier one, whatever the
\* timestamps, and no other chunk touches them.
C15_LastTerminalWins ==
    /\ (FinalReport /\ TerminalEnds(fs.lines, pos) # {}) =>
          outcome.value["usage"] = ExpectedUsage(LastTerminal(fs.lines, pos))
    /\ (JustDispatched /\ IsTerminal(last.chunk)) =>
          /\ jobReport["usage"] = ExpectedUsage(last.chunk)
          /\ jobReport["runTime"] =
                Elapsed(jobReport[TerminalKey(last.chunk)], last.before["execTime"])
    /\ (JustDispatched /\ ~IsTerminal(last.chunk)) =>
          /\ SameField("runTime", jobReport, last.before)
          /\ SameField("usage", jobReport, last.before)

\* a 005 chunk with a Disk line only came after a 004 chunk with Disk and
\* Memory lines: the report holds the usage and runTime of the 005 chunk
C15_Witness ==
    /\ FinalReport
    /\ fs.lines = Block(C001, ExecAt, <<>>)
                      \o Block(C004, EvictAt, <<DiskLine, MemoryLine>>)
                      \o Block(C005, TermAt, <<Disk8Line>>)
    /\ outcome.value["usage"] = [diskUsage |-> 8]
    /\ outcome.value["runTime"] = 3 * 86400 + 5

\* the time keys whose code begins chunk c
KeysOfChunk(c) == {k \in TimeKeys : startswith(c, CodeOfKey(k))}

\* C16: last write wins: each of subTime, execTime, evictTime, termTime and
\* abortedTime is the resolved timestamp of the most recent dispatched chunk
\* of its own code, and a chunk never changes the time field of another code.
C16_LastWriteWins ==
    /\ JustDispatched =>
          /\ \A k \in KeysOfChunk(last.chunk) :
                jobReport[k] = parse_time(FirstLine(last.chunk), last.clock).dt
          /\ \A k \in TimeKeys \ KeysOfChunk(last.chunk) :
                SameField(k, jobReport, last.before)
    /\ (FinalReport /\ Cardinality(seen) <= 1) =>
          \A k \in TimeKeys \cap DOMAIN outcome.value :
              outcome.value[k] =
                  parse_time(FirstLine(LastChunkWith(fs.lines, pos, CodeOfKey(k))),
                             CHOOSE clock \in seen : TRUE).dt

\* two 001 chunks with different timestamps: the report holds the later one
C16_Witness ==
    /\ FinalReport
    /\ fs.lines = Block(C001, ExecAt, <<>>) \o Block(C001, EvictAt, <<>>)
    /\ outcome.value["execTime"].day = 31

----------------------------------------------------------------------------
(* Logs whose chunks begin in every way around the event codes (SpecShape) *)

Code012 == <<"0", "1", "2">>

\* first lines: "000 (1) <stamp> x", "0001 (1) <stamp> x", " 000 (1) <stamp> x",
\* "000 x" and "0001 x" for every code, and one line of a code outside the chain
ShapeLines ==
    UNION { { Header(code, ExecAt),
              Header(code \o <<"1">>, ExecAt),
              <<SP>> \o Header(code, ExecAt),
              code \o <<SP, "x">>,
              code \o <<"1", SP, "x">> } : code \in Codes }
    \cup {Header(Code012, ExecAt)}

\* a line that holds "..." but does not begin with it
DotsInside == <<SP>> \o SepLine

\* chunks as sequences of lines: one first line with or without a body, the
\* empty chunk, and a chunk whose first line is blank
ShapeChunks ==
    {<<l \o <<NL>>>> \o body : l \in ShapeLines, body \in {<<>>, <<DiskLine>>, <<DotsInside>>}}
    \cup {<<>>, <<<<NL>>, Header(C000, ExecAt) \o <<NL>>>>}

\* separator lines: "..." alone and "..." followed by more text
ShapeSeps == {SepLine, Separator \o <<"x", NL>>}

\* what follows the last separator line
ShapeTails ==
    {<<>>, <<Header(C000, ExecAt) \o <<NL>>>>, <<Header(C004, ExecAt) \o <<NL>>, DiskLine>>}

ShapeFiles ==
    {prefix \o mid \o tail :
        prefix \in {<<>>, Block(C001, ExecAt, <<>>)},
        mid \in {<<>>} \cup {c \o <<s>> : c \in ShapeChunks, s \in ShapeSeps},
        tail \in ShapeTails}

InitShape == InitReadLog(ShapeFiles)

SpecShape == InitShape /\ [][NextOnce]_vars

----------------------------------------------------------------------------
(* Classification of a dispatched chunk (SpecShape) *)

\* the first whitespace-delimited token of the first line of chunk c, the
\* empty string if the line has none
FirstToken(c) ==
    LET toks == splitws(FirstLine(c))
    IN  IF Len(toks) = 0 THEN <<>> ELSE toks[1]

\* C14: the dispatched chunk triggers the action of code C if and only if the
\* first whitespace-delimited token of its first line is exactly C: a dispatch
\* that returns has set the time field of C (not set before) exactly when the
\* token is C, and a dispatch fails only in the action of a code that parses.
C14_FirstTokenDecides ==
    HasDispatched =>
        /\ last.ok =>
              \A k \in TimeKeys \ DOMAIN last.before :
                  k \in DOMAIN jobReport <=> FirstToken(last.chunk) = CodeOfKey(k)
        /\ ~last.ok => FirstToken(last.chunk) \in TimedCodes

\* C14 amended: the dispatched chunk triggers the action of code C if and only
\* if the text of the chunk begins with the three characters of C.
C14_PrefixDecides ==
    HasDispatched =>
        /\ last.ok =>
              \A k \in TimeKeys \ DOMAIN last.before :
                  k \in DOMAIN jobReport <=> startswith(last.chunk, CodeOfKey(k))
        /\ ~last.ok => \E code \in TimedCodes : startswith(last.chunk, code)

\* a chunk whose first token is "0001" has been dispatched and has set subTime
C14_Witness ==
    /\ HasDispatched
    /\ last.ok
    /\ FirstToken(last.chunk) = C000 \o <<"1">>
    /\ "subTime" \in DOMAIN jobReport
    /\ "subTime" \notin DOMAIN last.before

\* the chain takes chunk c to the 006 branch or to the final else
Discarded(c) == \A code \in TimedCodes : ~startswith(c, code)

----------------------------------------------------------------------------
(* The lines after the last separator line (SpecShape) *)

\* the log cut just after its last separator line
Truncated(lines) == SubSeq(lines, 1, PrevSep(lines, Len(lines)))

RECURSIVE RunUpTo(_, _, _)
\* the report, or the exception, after the chunks ended by the separator
\* lines among the first n lines have been dispatched in order, every
\* timestamp resolved against the same clock
RunUpTo(lines, n, clock) ==
    IF SepIndexes(lines, n) = {}
    THEN [ok |-> TRUE, report |-> Put(EmptyDict, "path", Path)]
    ELSE IF RunUpTo(lines, PrevSep(lines, n) - 1, clock).ok
         THEN Dispatch(ChunkEndingAt(lines, PrevSep(lines, n)),
                       RunUpTo(lines, PrevSep(lines, n) - 1, clock).report, clock)
         ELSE RunUpTo(lines, PrevSep(lines, n) - 1, clock)

\* the outcome of read_log on a log that ends with a separator line (or is
\* empty) when the file is read to its end
OutcomeOn(lines, clock) ==
    IF RunUpTo(lines, Len(lines), clock).ok
    THEN [kind |-> "report", value |-> RunUpTo(lines, Len(lines), clock).report]
    ELSE [kind |-> "raise", exc |-> RunUpTo(lines, Len(lines), clock).exc]

\* the clock that the invocation has read, the current one if it read none
ClockRead == IF seen = {} THEN now ELSE CHOOSE c \in seen : TRUE

\* the lines after the last separator line, as one text
TailText == TextOf(fs.lines, PrevSep(fs.lines, Len(fs.lines)) + 1, Len(fs.lines))

\* C18: lines after the last separator line are never dispatched: the outcome
\* of read_log (report or exception) is its outcome on the log truncated just
\* after its last separator line, and a log without separator line yields a
\* report that holds path only.
C18_TailNeverDispatched ==
    /\ (pc = "done" /\ outcome.kind \in {"report", "raise"} /\ Cardinality(seen) <= 1) =>
          outcome = OutcomeOn(Truncated(fs.lines), ClockRead)
    /\ (FinalReport /\ SepIndexes(fs.lines, Len(fs.lines)) = {}) =>
          outcome.value = [path |-> Path]
    /\ (pc = "loop" /\ pos = Len(fs.lines)) => chunk = TailText

\* a report was returned for a log that ends in an unterminated 004 chunk
\* after an executed job: the report has execTime and no evictTime
C18_Witness ==
    /\ FinalReport
    /\ startswith(TailText, C004)
    /\ "execTime" \in DOMAIN outcome.value
    /\ "evictTime" \notin DOMAIN outcome.value
    /\ "runTime" \notin DOMAIN outcome.value

----------------------------------------------------------------------------
(* Segmentation (SpecShape) *)

\* the separator line at which the last dispatch happened: the last line
\* consumed, or the next line if the dispatch raised
LastDispatchAt == IF last.ok THEN PrevSep(fs.lines, pos) ELSE pos + 1

\* some line of text c begins with "..."
HoldsSeparator(c) ==
    \E i \in DOMAIN split(c, NL) : startswith(split(c, NL)[i], Separator)

\* C19: the dispatched chunk is the in-order concatenation of the lines read
\* since the previous separator line (or the file start), each with its line
\* terminator; the buffer is always the concatenation of the lines read since
\* then, never holds a separator line, and is empty right after a dispatch.
C19_Segmentation ==
    /\ pc = "loop" =>
          /\ chunk = TextOf(fs.lines, PrevSep(fs.lines, pos) + 1, pos)
          /\ ~HoldsSeparator(chunk)
          /\ (pos > 0 /\ startswith(fs.lines[pos], Separator)) => chunk = <<>>
    /\ HasDispatched =>
          /\ LastDispatchAt \in SepIndexes(fs.lines, Len(fs.lines))
          /\ last.chunk = ChunkEndingAt(fs.lines, LastDispatchAt)
          /\ ~HoldsSeparator(last.chunk)

\* a chunk of two lines, the second holding "..." after a space, has just been
\* dispatched at the second separator line of the log
C19_Witness ==
    /\ JustDispatched
    /\ Cardinality(SepIndexes(fs.lines, pos)) = 2
    /\ last.chunk = Header(C006, ExecAt) \o <<NL>> \o DotsInside

----------------------------------------------------------------------------
(* main: one selected field per matched file (SpecMain) *)

Selections == {"time", "memory", "disk"}

\* d[key] on a dict: KeyError when the key is missing
GetItem(d, key) ==
    IF key \in DOMAIN d THEN [st |-> "print", value |-> d[key]]
    ELSE [st |-> "raise", exc |-> "KeyError"]

\* dummy["usage"][key]
UsageItem(rep, key) ==
    IF "usage" \in DOMAIN rep THEN GetItem(rep["usage"], key)
    ELSE [st |-> "raise", exc |-> "KeyError"]

\* the body of the try block for a read_log call that ended as `out`: the
\* value to print, or the exception raised (by read_log itself, by
\* subscripting None, or by a missing key)
Selected(out, mode) ==
    IF out.kind = "raise" THEN [st |-> "raise", exc |-> out.exc]
    ELSE IF out.kind = "None" THEN [st |-> "raise", exc |-> "TypeError"]
    ELSE IF mode = "time" THEN GetItem(out.value, "runTime")
    ELSE IF mode = "memory" THEN UsageItem(out.value, "memUsage")
    ELSE IF mode = "disk" THEN UsageItem(out.value, "diskUsage")
    ELSE [st |-> "skip"]

ReadLogVars == <<fs, pc, pos, chunk, jobReport, outcome, last>>

MainRest == <<now, ticks, ptLine, ptOut, prChunk, prOut, run, first, seen, argv, matches>>

\* the check of sys.argv: exit status 1 on a missing or unknown selection
MainStart ==
    /\ mpc = "start"
    /\ IF Len(argv) = 0 \/ argv[1] \notin Selections
       THEN /\ stdout' = Append(stdout, [kind |-> "message", text |-> "Invalid selection!"])
            /\ mpc' = "exit1"
            /\ idx' = idx
       ELSE /\ stdout' = stdout
            /\ mpc' = "loop"
            /\ idx' = 1
    /\ UNCHANGED ReadLogVars
    /\ UNCHANGED MainRest
    /\ UNCHANGED reads

\* the for loop takes the next match f and calls read_log(f)
MainCall ==
    /\ mpc = "loop"
    /\ idx <= Len(matches)
    /\ mpc' = "try"
    /\ fs' = matches[idx]
    /\ pc' = "call"
    /\ outcome' = Pending
    /\ last' = NoDispatch
    /\ LocalsIdle
    /\ UNCHANGED MainRest
    /\ UNCHANGED <<stdout, idx, reads>>

\* MainAfterCall without the try/except: an exception ends main
MainAfterCallNoExcept ==
    /\ mpc = "try"
    /\ pc = "done"
    /\ pc' = "idle"
    /\ reads' = Append(reads, outcome)
    /\ IF Selected(outcome, argv[1]).st = "raise"
       THEN /\ mpc' = "crashed"
            /\ UNCHANGED <<stdout, idx>>
       ELSE /\ mpc' = "loop"
            /\ idx' = idx + 1
            /\ stdout' = IF Selected(outcome, argv[1]).st = "print"
                         THEN Append(stdout, [kind |-> "value",
                                              value |-> Selected(outcome, argv[1]).value])
                         ELSE stdout
    /\ UNCHANGED <<fs, pos, chunk, jobReport, outcome, last>>
    /\ UNCHANGED MainRest

\* read_log has returned or raised inside the try block: the selected field
\* is printed, or the exception is caught and the loop continues
MainAfterCall ==
    /\ mpc = "try"
    /\ pc = "done"
    /\ pc' = "idle"
    /\ reads' = Append(reads, outcome)
    /\ mpc' = "loop"
    /\ idx' = idx + 1
    /\ stdout' = IF Selected(outcome, argv[1]).st = "print"
                 THEN Append(stdout, [kind |-> "value",
                                      value |-> Selected(outcome, argv[1]).value])
                 ELSE stdout
    /\ UNCHANGED <<fs, pos, chunk, jobReport, outcome, last>>
    /\ UNCHANGED MainRest

\* the for loop is exhausted: main returns
MainEnd ==
    /\ mpc = "loop"
    /\ idx > Len(matches)
    /\ mpc' = "exit0"
    /\ UNCHANGED ReadLogVars
    /\ UNCHANGED MainRest
    /\ UNCHANGED <<stdout, idx, reads>>

NextMain ==
    \/ MainStart
    \/ MainCall
    \/ OpenOk
    \/ OpenFail
    \/ ReadLine
    \/ ReadSeparator
    \/ ReadFail
    \/ EndOfFile
    \/ MainAfterCall
    \/ MainEnd

\* a job that ran to termination: runTime, diskUsage 7 and memUsage 5
FullLog == Block(C001, ExecAt, <<>>) \o Block(C005, TermAt, <<DiskLine, MemoryLine>>)

\* an evicted job: runTime and diskUsage 8, no memUsage
EvictedLog == Block(C001, ExecAt, <<>>) \o Block(C004, EvictAt, <<Disk8Line>>)

\* a job that was only submitted: no runTime, no usage
SubmittedLog == Block(C000, ExecAt, <<>>)

\* an eviction without execution: read_log raises KeyError
BrokenLog == Block(C004, EvictAt, <<DiskLine>>)

MainFiles ==
    {[exists |-> FALSE, lines |-> <<>>]}
    \cup {[exists |-> TRUE, lines |-> f] : f \in {FullLog, EvictedLog, SubmittedLog, BrokenLog}}

MaxFiles == 2

Argvs == {<<>>, <<"time">>, <<"memory">>, <<"disk">>, <<"cpu">>}

InitMain ==
    /\ now = [year |-> 2024, month |-> 1]
    /\ ticks = 0
    /\ ptLine = <<>>
    /\ ptOut = Idle
    /\ prChunk = <<>>
    /\ prOut = Idle
    /\ fs = [exists |-> FALSE, lines |-> <<>>]
    /\ pc = "idle"
    /\ pos = 0
    /\ chunk = <<>>
    /\ jobReport = EmptyDict
    /\ outcome = Pending
    /\ run = 1
    /\ first = Pending
    /\ seen = {}
    /\ last = NoDispatch
    /\ stdout = <<>>
    /\ argv \in Argvs
    /\ matches \in Seqs(MainFiles, MaxFiles)
    /\ idx = 0
    /\ mpc = "start"
    /\ reads = <<>>

SpecMain == InitMain /\ [][NextMain]_vars

----------------------------------------------------------------------------
(* Properties of main (SpecMain) *)

\* the report of outcome `out` has the field that `mode` selects
HasSelected(out, mode) ==
    /\ out.kind = "report"
    /\ CASE mode = "time" -> "runTime" \in DOMAIN out.value
         [] mode = "memory" -> "usage" \in DOMAIN out.value
                               /\ "memUsage" \in DOMAIN out.value["usage"]
         [] mode = "disk" -> "usage" \in DOMAIN out.value
                             /\ "diskUsage" \in DOMAIN out.value["usage"]

ValueOf(out, mode) ==
    CASE mode = "time" -> out.value["runTime"]
      [] mode = "memory" -> out.value["usage"]["memUsage"]
      [] mode = "disk" -> out.value["usage"]["diskUsage"]

RECURSIVE ExpectedValues(_, _)
\* the selected values of the outcomes rs that have them, in order
ExpectedValues(rs, mode) ==
    IF Len(rs) = 0 THEN <<>>
    ELSE ExpectedValues(SubSeq(rs, 1, Len(rs) - 1), mode)
         \o (IF HasSelected(rs[Len(rs)], mode) THEN <<ValueOf(rs[Len(rs)], mode)>> ELSE <<>>)

IsValueLine(l) == l.kind = "value"

\* the values printed so far, in order
PrintedValues ==
    [i \in 1..Len(SelectSeq(stdout, IsValueLine)) |-> SelectSeq(stdout, IsValueLine)[i].value]

\* what read_log can give for file f: None on IOError, else the result of
\* dispatching its chunks
PossibleOutcomes(f) ==
    {[kind |-> "None"]} \cup (IF f.exists THEN {OutcomeOn(f.lines, now)} ELSE {})

\* C20: in batch mode a failing file (absent result, parse error, selected
\* field missing) never stops the batch and prints no value line; every
\* matched file is processed, and the value lines are exactly the selected
\* fields of the files that have them, in match order.
C20_BatchGoesOn ==
    /\ mpc \in {"start", "loop", "try", "exit0", "exit1"}
    /\ mpc = "exit1" <=> (mpc # "start" /\ (Len(argv) = 0 \/ argv[1] \notin Selections))
    /\ mpc \in {"loop", "try", "exit0"} =>
          /\ Len(reads) = idx - 1
          /\ PrintedValues = ExpectedValues(reads, argv[1])
    /\ (mpc = "loop" /\ Len(reads) > 0) =>
          reads[Len(reads)] \in PossibleOutcomes(matches[Len(reads)])
    /\ mpc = "exit0" => Len(reads) = Len(matches)

\* in time mode the first file made read_log raise and the second file's
\* runTime is the only value printed
C20_Witness ==
    /\ mpc = "exit0"
    /\ argv = <<"time">>
    /\ matches = <<[exists |-> TRUE, lines |-> BrokenLog], [exists |-> TRUE, lines |-> FullLog]>>
    /\ reads[1].kind = "raise"
    /\ PrintedValues = <<3 * 86400 + 5>>

====
